---- MODULE Spec2Model ----
(***************************************************************************)
(* The pipeline execution core of GUI/pipeline_tab.py: the pipeline        *)
(* configuration held by PipelineTab, the canvas' connection gesture, the  *)
(* PipelineExecutor with its PipelineExecutionThread workers, and the Qt   *)
(* event queue that carries the workers' signals to the GUI thread, with   *)
(* the validator, the saving and loading of the pipeline document, and     *)
(* the preset pipelines of create_selected_pipeline.                       *)
(*                                                                         *)
(* A block id is the pair <<block_type, n>> for the string                 *)
(* f"{block_type.value}_{n}" that add_block builds.                        *)
(***************************************************************************)
EXTENDS Integers, Sequences, FiniteSets, TLC

VARIABLES
    block_ids,          \* keys of current_pipeline['blocks'], in dict order
    blocks,             \* current_pipeline['blocks']: id -> the block's dict
    connections,        \* current_pipeline['connections']: <<source_id, target_id>>
    block_counter,      \* PipelineTab.block_counter
    canvas_blocks,      \* PipelineCanvas.blocks: id -> config.status
    canvas_connections, \* PipelineCanvas.connections: <<source_id, target_id>>
    connecting,         \* PipelineCanvas.connecting
    connection_start,   \* PipelineCanvas.connection_start
    is_running,         \* PipelineExecutor.is_running
    execution_thread,   \* PipelineExecutor.execution_thread: 0 (None) or a thread
    threads,            \* every PipelineExecutionThread created so far
    queue,              \* signals posted to the GUI thread, not yet delivered
    main_pc,            \* GUI thread: "idle", or "wait" inside stop_execution
    validation,         \* the issues of the last validate_pipeline call, if any
    pipeline_file       \* the JSON document save_pipeline wrote, if written

vars == <<block_ids, blocks, connections, block_counter, canvas_blocks,
          canvas_connections, connecting, connection_start, is_running,
          execution_thread, threads, queue, main_pc, validation, pipeline_file>>

pipeline_vars == <<block_ids, blocks, connections, block_counter>>
canvas_vars == <<canvas_blocks, canvas_connections, connecting, connection_start>>
executor_vars == <<is_running, execution_thread>>
document_vars == <<validation, pipeline_file>>

\* ------------------------------------------------------------------ bounds
MaxBlocks == 2          \* add_block is explored up to this block_counter
MaxConns == 1           \* connection gestures explored per pipeline
MaxRuns == 2            \* worker threads created per behaviour
ResolverBlocks == 3     \* block count of the resolver's enumerated inputs
ResolverConns == 3      \* connection-list length of the resolver's inputs
RunBlocks == 1          \* block count of the pipelines runs are explored on
RunConns == 1           \* connection-list length of those pipelines
DocBlocks == 2          \* block count of the pipelines saved and loaded
DocConns == 1           \* connection-list length of those pipelines
ValBlocks == 2          \* block count of the pipelines validated
ValConns == 3           \* connection-list length of those pipelines
EditBlocks == 2         \* block_counter up to which the editor adds blocks
EditConns == 2          \* connections up to which the gesture is explored

\* ------------------------------------------------------------ basic values
BlockType == {"input", "preprocessing", "optimization", "simulation",
              "analysis", "output"}

\* The block types add_block is explored with: one that _execute_block
\* dispatches to a handler and one that it does not.
PaletteTypes == {"input", "preprocessing"}

ExecutionStatus == {"pending", "running", "completed", "failed", "skipped"}

NoId == <<"", 0>>

\* The id of a block no pipeline holds: add_block numbers from 1.
MissingId == <<"preprocessing", 0>>

\* validate_pipeline has not been called.
NotValidated == [done |-> FALSE, issues |-> <<>>]

\* The status entry of a block dict that has no 'status' key
NoStatus == "absent"

\* No pipeline file has been written.
NoFile ==
    [written |-> FALSE,
     document |-> [block_ids |-> <<>>, blocks |-> <<>>, connections |-> <<>>],
     saved_from |-> [block_ids |-> <<>>, blocks |-> <<>>, connections |-> <<>>]]

Range(s) == {s[k] : k \in DOMAIN s}

\* ------------------------------------------------------ dependency resolver
\* dependencies = {block_id: [] for block_id in blocks}, then the loop over
\* connections; a lookup of an id that is no key raises KeyError.
RECURSIVE BuildDependencies(_, _, _)
BuildDependencies(deps, conns, k) ==
    IF k > Len(conns) THEN [err |-> FALSE, deps |-> deps]
    ELSE LET source_id == conns[k][1]
             target_id == conns[k][2]
         IN  IF source_id \notin DOMAIN deps
             THEN [err |-> TRUE, deps |-> deps]
             ELSE IF target_id \notin Range(deps[source_id])
                  THEN IF target_id \notin DOMAIN deps
                       THEN [err |-> TRUE, deps |-> deps]
                       ELSE BuildDependencies(
                              [deps EXCEPT ![target_id] = Append(@, source_id)],
                              conns, k + 1)
                  ELSE BuildDependencies(deps, conns, k + 1)

\* visit(block_id) of _build_execution_order; st = [visited, order].
RECURSIVE visit(_, _, _)
RECURSIVE VisitEach(_, _, _, _)
visit(block_id, deps, st) ==
    IF block_id \in st.visited THEN st
    ELSE LET st1 == [st EXCEPT !.visited = @ \cup {block_id}]
             st2 == VisitEach(deps[block_id], 1, deps, st1)
         IN  [st2 EXCEPT !.order = Append(@, block_id)]

\* "for dep in dependencies[block_id]: visit(dep)" and
\* "for block_id in blocks: visit(block_id)".
VisitEach(ids, k, deps, st) ==
    IF k > Len(ids) THEN st
    ELSE VisitEach(ids, k + 1, deps, visit(ids[k], deps, st))

\* A resolver that ignores the dependencies and keeps the dict order.
build_execution_order_unsorted(ids, conns) ==
    [err |-> FALSE, order |-> ids]

\* A resolver whose visited set is new for every block of the outer loop.
RECURSIVE VisitEachAfresh(_, _, _, _)
VisitEachAfresh(ids, k, deps, order) ==
    IF k > Len(ids) THEN order
    ELSE VisitEachAfresh(ids, k + 1, deps,
                         visit(ids[k], deps, [visited |-> {}, order |-> order]).order)

build_execution_order_revisits(ids, conns) ==
    LET d == BuildDependencies([b \in Range(ids) |-> <<>>], conns, 1)
    IN  IF d.err THEN [err |-> TRUE, order |-> <<>>]
        ELSE [err |-> FALSE, order |-> VisitEachAfresh(ids, 1, d.deps, <<>>)]

build_execution_order(ids, conns) ==
    LET d == BuildDependencies([b \in Range(ids) |-> <<>>], conns, 1)
    IN  IF d.err THEN [err |-> TRUE, order |-> <<>>]
        ELSE [err |-> FALSE,
              order |-> VisitEach(ids, 1, d.deps,
                                  [visited |-> {}, order |-> <<>>]).order]

\* ------------------------------------------------------------ stage dispatch
\* _execute_block: the four dispatched types return True from their handler,
\* every other type reports "Unknown block type" and returns False.
execute_block(block_type) ==
    block_type \in {"preprocessing", "optimization", "simulation", "analysis"}

\* The block_progress messages _execute_block emits before it returns.
execute_block_progress(block_type) ==
    IF execute_block(block_type)
    THEN <<"Starting", "Running">>
    ELSE <<"Starting", "Unknown block type">>

\* ------------------------------------------------------------------ helpers
\* d[key] = value on a Python dict: a new key goes last, an existing key
\* keeps its place.
DictKeys(ids, key) == IF key \in Range(ids) THEN ids ELSE Append(ids, key)

DictSet(d, key, value) ==
    [k \in DOMAIN d \cup {key} |-> IF k = key THEN value ELSE d[k]]

\* Ports drawn by PipelineBlock._setup_ports: an input block has no input
\* port and an output block no output port, so mousePressEvent finds none.
HasOutputPort(block_type) == block_type # "output"
HasInputPort(block_type) == block_type # "input"

\* _get_default_parameters, one parameter of each block type's dict kept
get_default_parameters(block_type) ==
    CASE block_type = "input" -> [subject_selection |-> "all"]
      [] block_type = "preprocessing" -> [parallel |-> "False"]
      [] block_type = "optimization" -> [goal |-> "mean"]
      [] block_type = "simulation" -> [simulation_type |-> "scalar"]
      [] block_type = "analysis" -> [analysis_space |-> "mesh"]
      [] OTHER -> [output_format |-> "nifti"]

\* The entry add_block writes to current_pipeline['blocks'] for the n-th
\* block: the name stands for f"{block_type.value.title()} {n}", the position
\* is a Python tuple.
BlockData(block_type, n) ==
    [block_id |-> <<block_type, n>>,
     block_type |-> block_type,
     name |-> <<block_type, n>>,
     parameters |-> get_default_parameters(block_type),
     position |-> <<"tuple", 50 + ((n * 200) % 800), 50 + ((n \div 4) * 150)>>,
     status |-> "pending"]

Event(sig, t, id, ok, msg) ==
    [sig |-> sig, t |-> t, id |-> id, ok |-> ok, msg |-> msg]

\* PipelineExecutionThread.__init__, plus, kept for the properties below:
\* what the thread has emitted (log), the block ids and connections that
\* _build_execution_order read (ids, conns), how run() ended (ending) and
\* where the worker stood when stop() was first called (stop_pc,
\* stop_started).
NewThread ==
    [pc |-> "start", should_stop |-> FALSE, order |-> <<>>, i |-> 1,
     log |-> <<>>, ids |-> <<>>, conns |-> <<>>, ending |-> "",
     stop_pc |-> "", stop_started |-> 0]

\* QThread.isRunning()
isRunning(t) == threads[t].pc # "done"

InHandler(t) == threads[t].pc = "exec"

Started(log) == SelectSeq(log, LAMBDA e : e.sig = "block_started")

\* ------------------------------------------------------------------- Init
Init ==
    /\ block_ids = <<>>
    /\ blocks = <<>>
    /\ connections = <<>>
    /\ block_counter = 0
    /\ canvas_blocks = <<>>
    /\ canvas_connections = <<>>
    /\ connecting = FALSE
    /\ connection_start = NoId
    /\ is_running = FALSE
    /\ execution_thread = 0
    /\ threads = <<>>
    /\ queue = <<>>
    /\ main_pc = "idle"
    /\ validation = NotValidated
    /\ pipeline_file = NoFile

\* ---------------------------------------------------------------- editing
\* Next explores the editing gestures between runs only: no worker is alive
\* and no signal waits for delivery. The code does not enforce this; it is
\* the convention that the editing surface is not used on a running
\* pipeline, taken as an assumption about the user.
NoRunInFlight ==
    queue = <<>> /\ \A t \in DOMAIN threads : threads[t].pc = "done"

\* PipelineTab.add_block with PipelineCanvas.add_block
add_block(block_type) ==
    /\ main_pc = "idle"
    /\ LET block_id == <<block_type, block_counter + 1>>
       IN  /\ block_counter' = block_counter + 1
           /\ block_ids' = DictKeys(block_ids, block_id)
           /\ blocks' = DictSet(blocks, block_id,
                  BlockData(block_type, block_counter + 1))
           /\ canvas_blocks' = DictSet(canvas_blocks, block_id,
                  [block_type |-> block_type, status |-> "pending"])
    /\ UNCHANGED <<connections, canvas_connections, connecting,
                   connection_start, executor_vars, threads, queue, main_pc, document_vars>>

\* PipelineCanvas.start_connection, called by mousePressEvent for a click on
\* an output port of a block of the canvas.
start_connection(block_id) ==
    /\ main_pc = "idle"
    /\ block_id \in DOMAIN canvas_blocks
    /\ HasOutputPort(canvas_blocks[block_id].block_type)
    /\ connecting' = TRUE
    /\ connection_start' = block_id
    /\ UNCHANGED <<pipeline_vars, canvas_blocks, canvas_connections,
                   executor_vars, threads, queue, main_pc, document_vars>>

\* PipelineCanvas.add_connection: TRUE when the connection is created.
add_connection_ok(source_id, target_id) ==
    source_id \in DOMAIN canvas_blocks /\ target_id \in DOMAIN canvas_blocks

\* PipelineTab.on_connection_created applied to the connection list
on_connection_created(conns, source_id, target_id) ==
    IF \E k \in DOMAIN conns : conns[k] = <<source_id, target_id>>
    THEN conns
    ELSE Append(conns, <<source_id, target_id>>)

\* PipelineCanvas.finish_connection, called by mousePressEvent for a click on
\* an input port while connecting; connection_created runs
\* on_connection_created before cancel_connection.
finish_connection(target_block_id) ==
    /\ main_pc = "idle"
    /\ connecting
    /\ target_block_id \in DOMAIN canvas_blocks
    /\ HasInputPort(canvas_blocks[target_block_id].block_type)
    /\ IF connection_start # NoId
          /\ add_connection_ok(connection_start, target_block_id)
       THEN /\ canvas_connections' =
                  Append(canvas_connections, <<connection_start, target_block_id>>)
            /\ connections' =
                  on_connection_created(connections, connection_start, target_block_id)
       ELSE UNCHANGED <<canvas_connections, connections>>
    /\ connecting' = FALSE
    /\ connection_start' = NoId
    /\ UNCHANGED <<block_ids, blocks, block_counter, canvas_blocks,
                   executor_vars, threads, queue, main_pc, document_vars>>

\* ---------------------------------------------------------- the document
\* json.dump writes a tuple as an array, and json.load reads an array as a
\* list: a position is <<"tuple", x, y>>, <<"array", x, y>> or <<"list", x, y>>.
json_dump_position(position) == <<"array", position[2], position[3]>>

json_load_position(position) == <<"list", position[2], position[3]>>

\* json.dump(self.current_pipeline, f): keys and strings are kept as they are
json_dump(ids, blks, conns) ==
    [block_ids |-> ids,
     blocks |-> [b \in DOMAIN blks |->
                    [blks[b] EXCEPT !.position = json_dump_position(@)]],
     connections |-> conns]

\* json.load(f)
json_load(document) ==
    [block_ids |-> document.block_ids,
     blocks |-> [b \in DOMAIN document.blocks |->
                    [document.blocks[b] EXCEPT !.position = json_load_position(@)]],
     connections |-> document.connections]

\* PipelineTab.new_pipeline with PipelineCanvas.clear_canvas
new_pipeline ==
    /\ main_pc = "idle"
    /\ block_ids' = <<>>
    /\ blocks' = <<>>
    /\ connections' = <<>>
    /\ block_counter' = 0
    /\ canvas_blocks' = <<>>
    /\ canvas_connections' = <<>>
    /\ UNCHANGED <<connecting, connection_start, executor_vars, threads, queue,
                   main_pc, document_vars>>

\* PipelineTab.save_pipeline with a file name chosen; saved_from keeps the
\* pipeline as it was in memory when the file was written.
save_pipeline ==
    /\ main_pc = "idle"
    /\ pipeline_file' =
          [written |-> TRUE,
           document |-> json_dump(block_ids, blocks, connections),
           saved_from |-> [block_ids |-> block_ids, blocks |-> blocks,
                           connections |-> connections]]
    /\ UNCHANGED <<pipeline_vars, canvas_vars, executor_vars, threads, queue,
                   main_pc, validation>>

\* PipelineTab.load_pipeline with the file save_pipeline wrote: the canvas is
\* cleared, current_pipeline becomes the loaded data as it is, the canvas
\* blocks and connections are recreated, block_counter = len(blocks).
load_pipeline ==
    /\ main_pc = "idle"
    /\ pipeline_file.written
    /\ LET pipeline_data == json_load(pipeline_file.document)
       IN  /\ block_ids' = pipeline_data.block_ids
           /\ blocks' = pipeline_data.blocks
           /\ connections' = pipeline_data.connections
           /\ canvas_blocks' =
                 [b \in DOMAIN pipeline_data.blocks |->
                     [block_type |-> pipeline_data.blocks[b].block_type,
                      status |-> IF pipeline_data.blocks[b].status = NoStatus
                                 THEN "pending"
                                 ELSE pipeline_data.blocks[b].status]]
           /\ canvas_connections' =
                 SelectSeq(pipeline_data.connections,
                           LAMBDA c : /\ c[1] \in DOMAIN pipeline_data.blocks
                                      /\ c[2] \in DOMAIN pipeline_data.blocks)
           /\ block_counter' = Len(pipeline_data.block_ids)
    /\ UNCHANGED <<connecting, connection_start, executor_vars, threads, queue,
                   main_pc, document_vars>>

\* ------------------------------------------------------ preset pipelines
\* BlockConfiguration(block_id=f"{block_type}_1", ...) as the preset builders
\* construct it; every preset block lies on y = 100. A fixed name is the pair
\* <<name, 0>>, as the names add_block builds are pairs.
BlockConfiguration(block_type, name, x, parameters) ==
    [block_id |-> <<block_type, 1>>, block_type |-> block_type,
     name |-> <<name, 0>>, position |-> <<"tuple", x, 100>>,
     parameters |-> parameters, status |-> "pending"]

\* PipelineTab.add_block_to_pipeline with PipelineCanvas.add_block, applied
\* to the pipeline p: the dict written has no 'status' key.
add_block_to_pipeline(p, config) ==
    [p EXCEPT
       !.block_ids = DictKeys(@, config.block_id),
       !.blocks = DictSet(@, config.block_id,
                     [block_id |-> config.block_id, name |-> config.name,
                      block_type |-> config.block_type,
                      position |-> config.position,
                      parameters |-> config.parameters,
                      inputs |-> <<>>, outputs |-> <<>>,
                      status |-> NoStatus]),
       !.canvas_blocks = DictSet(@, config.block_id,
                     [block_type |-> config.block_type,
                      status |-> config.status])]

RECURSIVE AddBlocksToPipeline(_, _, _)
AddBlocksToPipeline(p, configs, k) ==
    IF k > Len(configs) THEN p
    ELSE AddBlocksToPipeline(add_block_to_pipeline(p, configs[k]), configs, k + 1)

\* The loop that ends both preset builders: canvas.add_connection, then
\* on_connection_created whatever add_connection returned.
RECURSIVE CreateConnections(_, _, _)
CreateConnections(p, pairs, k) ==
    IF k > Len(pairs) THEN p
    ELSE LET source_id == pairs[k][1]
             target_id == pairs[k][2]
             drawn == /\ source_id \in DOMAIN p.canvas_blocks
                      /\ target_id \in DOMAIN p.canvas_blocks
         IN  CreateConnections(
               [p EXCEPT
                  !.canvas_connections =
                     IF drawn THEN Append(@, <<source_id, target_id>>) ELSE @,
                  !.connections =
                     on_connection_created(@, source_id, target_id)],
               pairs, k + 1)

\* PipelineTab.create_full_pipeline applied to the pipeline p
create_full_pipeline(p) ==
    CreateConnections(
      AddBlocksToPipeline(p,
        << BlockConfiguration("input", "DICOM Input", 50, [data_type |-> "DICOM"]),
           BlockConfiguration("preprocessing", "Pre-processing", 300,
                              get_default_parameters("preprocessing")),
           BlockConfiguration("optimization", "Flex Search", 550,
                              get_default_parameters("optimization")),
           BlockConfiguration("simulation", "TI Simulation", 800,
                              get_default_parameters("simulation")),
           BlockConfiguration("analysis", "Analysis", 1050,
                              get_default_parameters("analysis")),
           BlockConfiguration("output", "Output", 1300, <<>>) >>, 1),
      << << <<"input", 1>>, <<"preprocessing", 1>> >>,
         << <<"preprocessing", 1>>, <<"optimization", 1>> >>,
         << <<"optimization", 1>>, <<"simulation", 1>> >>,
         << <<"simulation", 1>>, <<"analysis", 1>> >>,
         << <<"analysis", 1>>, <<"output", 1>> >> >>, 1)

\* PipelineTab.create_optimization_pipeline applied to the pipeline p
create_optimization_pipeline(p) ==
    CreateConnections(
      AddBlocksToPipeline(p,
        << BlockConfiguration("input", "m2m Input", 50, [data_type |-> "m2m"]),
           BlockConfiguration("optimization", "Flex Search", 300,
                              get_default_parameters("optimization")),
           BlockConfiguration("simulation", "TI Simulation", 550,
                              get_default_parameters("simulation")),
           BlockConfiguration("analysis", "Analysis", 800,
                              get_default_parameters("analysis")),
           BlockConfiguration("output", "Output", 1050, <<>>) >>, 1),
      << << <<"input", 1>>, <<"optimization", 1>> >>,
         << <<"optimization", 1>>, <<"simulation", 1>> >>,
         << <<"simulation", 1>>, <<"analysis", 1>> >>,
         << <<"analysis", 1>>, <<"output", 1>> >> >>, 1)

\* PipelineTab.create_selected_pipeline with a subject selected: the canvas
\* is cleared, current_pipeline is a new dict, and the chosen preset builder
\* sets block_counter to 0 before it adds its blocks and connections.
create_selected_pipeline(pipeline_type) ==
    /\ main_pc = "idle"
    /\ LET cleared == [block_ids |-> <<>>, blocks |-> <<>>, connections |-> <<>>,
                       canvas_blocks |-> <<>>, canvas_connections |-> <<>>]
           built == IF pipeline_type = "full"
                    THEN create_full_pipeline(cleared)
                    ELSE create_optimization_pipeline(cleared)
       IN  /\ block_ids' = built.block_ids
           /\ blocks' = built.blocks
           /\ connections' = built.connections
           /\ canvas_blocks' = built.canvas_blocks
           /\ canvas_connections' = built.canvas_connections
    /\ block_counter' = 0
    /\ UNCHANGED <<connecting, connection_start, executor_vars, threads, queue,
                   main_pc, document_vars>>

\* PipelineCanvas.remove_block: the block and the connection lines that
\* touch it leave the canvas; current_pipeline is not written.
remove_block(block_id) ==
    /\ main_pc = "idle"
    /\ IF block_id \in DOMAIN canvas_blocks
       THEN /\ canvas_connections' =
                  SelectSeq(canvas_connections,
                            LAMBDA c : c[1] # block_id /\ c[2] # block_id)
            /\ canvas_blocks' =
                  [b \in DOMAIN canvas_blocks \ {block_id} |-> canvas_blocks[b]]
       ELSE UNCHANGED <<canvas_blocks, canvas_connections>>
    /\ UNCHANGED <<pipeline_vars, connecting, connection_start, executor_vars,
                   threads, queue, main_pc, document_vars>>

\* -------------------------------------------------------------- validator
\* An issue is <<text, block name>>; the name is NoId for the issues that
\* name no block.
Issue(text, name) == <<text, name>>

\* dependencies of validate_pipeline: the sources of the connections whose
\* target_id is a key of blocks.
ValidateDependencies(blks, conns, block_id) ==
    SelectSeq(conns, LAMBDA c : c[2] = block_id)

\* "for block_id, block_data in blocks.items()": the 'has no inputs' issues
RECURSIVE DisconnectedIssues(_, _, _, _)
DisconnectedIssues(ids, blks, conns, k) ==
    IF k > Len(ids) THEN <<>>
    ELSE (IF /\ blks[ids[k]].block_type # "input"
             /\ ValidateDependencies(blks, conns, ids[k]) = <<>>
          THEN <<Issue("has no inputs", blks[ids[k]].name)>>
          ELSE <<>>)
         \o DisconnectedIssues(ids, blks, conns, k + 1)

\* [conn['target_id'] for conn in connections if conn['source_id'] == node]
Neighbors(conns, node) ==
    LET out == SelectSeq(conns, LAMBDA c : c[1] = node)
    IN  [k \in DOMAIN out |-> out[k][2]]

\* has_cycle(node) of validate_pipeline; st = [found, visited, rec_stack].
\* HasCycleEach is its for loop over the neighbors, which returns True at the
\* first neighbor that closes a cycle and leaves rec_stack as it is then.
RECURSIVE has_cycle(_, _, _)
RECURSIVE HasCycleEach(_, _, _, _, _)
has_cycle(node, conns, st) ==
    LET st1 == [st EXCEPT !.visited = @ \cup {node}, !.rec_stack = @ \cup {node}]
        st2 == HasCycleEach(Neighbors(conns, node), 1, node, conns, st1)
    IN  IF st2.found THEN st2
        ELSE [st2 EXCEPT !.rec_stack = @ \ {node}]

HasCycleEach(neighbors, k, node, conns, st) ==
    IF k > Len(neighbors) THEN st
    ELSE LET neighbor == neighbors[k]
         IN  IF neighbor \notin st.visited
             THEN LET r == has_cycle(neighbor, conns, st)
                  IN  IF r.found THEN r
                      ELSE HasCycleEach(neighbors, k + 1, node, conns, r)
             ELSE IF neighbor \in st.rec_stack
                  THEN [st EXCEPT !.found = TRUE]
                  ELSE HasCycleEach(neighbors, k + 1, node, conns, st)

\* CycleIssues without the break after the first cycle found.
RECURSIVE CycleIssuesNoBreak(_, _, _, _)
CycleIssuesNoBreak(ids, conns, k, st) ==
    IF k > Len(ids) THEN <<>>
    ELSE IF ids[k] \in st.visited THEN CycleIssuesNoBreak(ids, conns, k + 1, st)
    ELSE LET r == has_cycle(ids[k], conns, st)
         IN  (IF r.found THEN <<Issue("Pipeline contains cycles", NoId)>> ELSE <<>>)
             \o CycleIssuesNoBreak(ids, conns, k + 1, [r EXCEPT !.found = FALSE])

\* "for block_id in blocks: if block_id not in visited: if has_cycle(...)"
RECURSIVE CycleIssues(_, _, _, _)
CycleIssues(ids, conns, k, st) ==
    IF k > Len(ids) THEN <<>>
    ELSE IF ids[k] \in st.visited THEN CycleIssues(ids, conns, k + 1, st)
    ELSE LET r == has_cycle(ids[k], conns, st)
         IN  IF r.found THEN <<Issue("Pipeline contains cycles", NoId)>>
             ELSE CycleIssues(ids, conns, k + 1, r)

\* The empty-pipeline and input-block checks taken as one: an empty pipeline
\* reports 'no blocks' only.
HeadIssuesElse(ids, blks) ==
    IF ids = <<>> THEN <<Issue("Pipeline has no blocks", NoId)>>
    ELSE IF \E b \in Range(ids) : blks[b].block_type = "input" THEN <<>>
    ELSE <<Issue("Pipeline needs an input block", NoId)>>

\* The first two checks of validate_pipeline
HeadIssues(ids, blks) ==
    (IF ids = <<>> THEN <<Issue("Pipeline has no blocks", NoId)>> ELSE <<>>)
    \o (IF \E b \in Range(ids) : blks[b].block_type = "input" THEN <<>>
        ELSE <<Issue("Pipeline needs an input block", NoId)>>)

\* The issues list validate_pipeline builds
validate(ids, blks, conns) ==
    HeadIssues(ids, blks)
    \o DisconnectedIssues(ids, blks, conns, 1)
    \o CycleIssues(ids, conns, 1,
                   [found |-> FALSE, visited |-> {}, rec_stack |-> {}])

\* PipelineTab.validate_pipeline
validate_pipeline ==
    /\ main_pc = "idle"
    /\ validation' = [done |-> TRUE,
                      issues |-> validate(block_ids, blocks, connections)]
    /\ UNCHANGED <<pipeline_vars, canvas_vars, executor_vars, threads, queue,
                   main_pc, pipeline_file>>

\* --------------------------------------------------------------- executor
\* PipelineExecutor.execute_pipeline: the call that returns False changes
\* nothing; the accepted call creates and starts a thread. A thread that
\* execution_thread no longer refers to stays in threads: its run() goes on
\* until it returns.
execute_pipeline ==
    /\ main_pc = "idle"
    /\ \/ /\ is_running
          /\ UNCHANGED vars
       \/ /\ ~is_running
          /\ Len(threads) < MaxRuns
          /\ is_running' = TRUE
          /\ threads' = Append(threads, NewThread)
          /\ execution_thread' = Len(threads) + 1
          /\ UNCHANGED <<pipeline_vars, canvas_vars, queue, main_pc, document_vars>>

\* PipelineExecutionThread.stop, with the worker's position recorded at the
\* first call.
stop(t) ==
    [threads EXCEPT ![t] =
        IF @.should_stop THEN @
        ELSE [@ EXCEPT !.should_stop = TRUE,
                       !.stop_pc = threads[t].pc,
                       !.stop_started = Len(Started(threads[t].log))]]

\* PipelineExecutor.stop_execution up to its wait(5000); without a running
\* thread the whole call.
stop_execution ==
    /\ main_pc = "idle"
    /\ IF execution_thread # 0 /\ isRunning(execution_thread)
       THEN /\ threads' = stop(execution_thread)
            /\ main_pc' = "wait"
            /\ UNCHANGED is_running
       ELSE /\ is_running' = FALSE
            /\ UNCHANGED <<threads, main_pc>>
    /\ UNCHANGED <<pipeline_vars, canvas_vars, execution_thread, queue, document_vars>>

\* wait(5000) returns, because the thread finished or because the five
\* seconds elapsed; stop_execution then clears is_running either way.
stop_execution_return ==
    /\ main_pc = "wait"
    /\ main_pc' = "idle"
    /\ is_running' = FALSE
    /\ UNCHANGED <<pipeline_vars, canvas_vars, execution_thread, threads, queue,
                   document_vars>>

\* ----------------------------------------------------------------- worker
\* signal.emit from the worker thread: logged, and posted to the GUI thread
Emit(t, th, evs) ==
    /\ threads' = [threads EXCEPT ![t] = [th EXCEPT !.log = @ \o evs]]
    /\ queue' = queue \o evs

\* run(): blocks, connections and _build_execution_order; a KeyError goes to
\* the except clause.
run_build(t) ==
    /\ threads[t].pc = "start"
    /\ LET r == build_execution_order(block_ids, connections)
       IN  IF r.err
           THEN Emit(t, [threads[t] EXCEPT !.pc = "done", !.ending = "error",
                                           !.ids = block_ids, !.conns = connections],
                     <<Event("block_progress", t, NoId, FALSE, "Pipeline execution error"),
                       Event("pipeline_finished", t, NoId, FALSE, "")>>)
           ELSE /\ threads' = [threads EXCEPT ![t].pc = "loop", ![t].order = r.order,
                                              ![t].ids = block_ids,
                                              ![t].conns = connections]
                /\ UNCHANGED queue
    /\ UNCHANGED <<pipeline_vars, canvas_vars, executor_vars, main_pc, document_vars>>

\* run_next reporting should_stop itself instead of its negation.
run_next_negated(t) ==
    /\ threads[t].pc = "loop"
    /\ LET th == threads[t]
       IN  IF th.i > Len(th.order) \/ th.should_stop
           THEN Emit(t, [th EXCEPT !.pc = "done",
                            !.ending = IF th.should_stop THEN "stopped" ELSE "success"],
                     <<Event("pipeline_finished", t, NoId, th.should_stop, "")>>)
           ELSE /\ threads' = [threads EXCEPT ![t].pc = "emit"]
                /\ UNCHANGED queue
    /\ UNCHANGED <<pipeline_vars, canvas_vars, executor_vars, main_pc, document_vars>>

\* run_next without the "if self.should_stop: break".
run_next_no_break(t) ==
    /\ threads[t].pc = "loop"
    /\ LET th == threads[t]
       IN  IF th.i > Len(th.order)
           THEN Emit(t, [th EXCEPT !.pc = "done",
                            !.ending = IF th.should_stop THEN "stopped" ELSE "success"],
                     <<Event("pipeline_finished", t, NoId, ~th.should_stop, "")>>)
           ELSE /\ threads' = [threads EXCEPT ![t].pc = "emit"]
                /\ UNCHANGED queue
    /\ UNCHANGED <<pipeline_vars, canvas_vars, executor_vars, main_pc, document_vars>>

\* run(): the head of the for loop with "if self.should_stop: break", and
\* after the loop pipeline_finished.emit(not self.should_stop).
run_next(t) ==
    /\ threads[t].pc = "loop"
    /\ LET th == threads[t]
       IN  IF th.i > Len(th.order) \/ th.should_stop
           THEN Emit(t, [th EXCEPT !.pc = "done",
                            !.ending = IF th.should_stop THEN "stopped" ELSE "success"],
                     <<Event("pipeline_finished", t, NoId, ~th.should_stop, "")>>)
           ELSE /\ threads' = [threads EXCEPT ![t].pc = "emit"]
                /\ UNCHANGED queue
    /\ UNCHANGED <<pipeline_vars, canvas_vars, executor_vars, main_pc, document_vars>>

\* run(): block_config = blocks[block_id]; self.block_started.emit(block_id);
\* the thread then enters _execute_block.
run_block_started(t) ==
    /\ threads[t].pc = "emit"
    /\ LET th == threads[t]
           block_id == th.order[th.i]
       IN  IF block_id \notin DOMAIN blocks
           THEN Emit(t, [th EXCEPT !.pc = "done", !.ending = "error"],
                     <<Event("block_progress", t, NoId, FALSE, "Pipeline execution error"),
                       Event("pipeline_finished", t, NoId, FALSE, "")>>)
           ELSE Emit(t, [th EXCEPT !.pc = "exec"],
                     <<Event("block_started", t, block_id, FALSE, "")>>)
    /\ UNCHANGED <<pipeline_vars, canvas_vars, executor_vars, main_pc, document_vars>>

\* run_block_completed with block_completed emitted ahead of the handler's
\* progress messages.
run_block_completed_early(t) ==
    /\ threads[t].pc = "exec"
    /\ LET th == threads[t]
           block_id == th.order[th.i]
           block_type == blocks[block_id].block_type
           success == execute_block(block_type)
           progress == execute_block_progress(block_type)
           emitted ==
               <<Event("block_completed", t, block_id, success, "")>>
               \o [k \in 1..Len(progress) |->
                      Event("block_progress", t, block_id, FALSE, progress[k])]
       IN  IF success
           THEN Emit(t, [th EXCEPT !.pc = "loop", !.i = @ + 1], emitted)
           ELSE Emit(t, [th EXCEPT !.pc = "done", !.ending = "failed"],
                     emitted \o <<Event("pipeline_finished", t, NoId, FALSE, "")>>)
    /\ UNCHANGED <<pipeline_vars, canvas_vars, executor_vars, main_pc, document_vars>>

\* run(): _execute_block returns, block_completed is emitted, and a failed
\* block ends the run with pipeline_finished(False).
\* run_block_completed without the return after pipeline_finished.emit(False):
\* the loop goes on to the next block.
run_block_completed_no_return(t) ==
    /\ threads[t].pc = "exec"
    /\ LET th == threads[t]
           block_id == th.order[th.i]
           block_type == blocks[block_id].block_type
           success == execute_block(block_type)
           progress == execute_block_progress(block_type)
           emitted ==
               [k \in 1..Len(progress) |->
                   Event("block_progress", t, block_id, FALSE, progress[k])]
               \o <<Event("block_completed", t, block_id, success, "")>>
       IN  Emit(t, [th EXCEPT !.pc = "loop", !.i = @ + 1],
                IF success THEN emitted
                ELSE emitted \o <<Event("pipeline_finished", t, NoId, FALSE, "")>>)
    /\ UNCHANGED <<pipeline_vars, canvas_vars, executor_vars, main_pc, document_vars>>

run_block_completed(t) ==
    /\ threads[t].pc = "exec"
    /\ LET th == threads[t]
           block_id == th.order[th.i]
           block_type == blocks[block_id].block_type
           success == execute_block(block_type)
           progress == execute_block_progress(block_type)
           emitted ==
               [k \in 1..Len(progress) |->
                   Event("block_progress", t, block_id, FALSE, progress[k])]
               \o <<Event("block_completed", t, block_id, success, "")>>
       IN  IF success
           THEN Emit(t, [th EXCEPT !.pc = "loop", !.i = @ + 1], emitted)
           ELSE Emit(t, [th EXCEPT !.pc = "done", !.ending = "failed"],
                     emitted \o <<Event("pipeline_finished", t, NoId, FALSE, "")>>)
    /\ UNCHANGED <<pipeline_vars, canvas_vars, executor_vars, main_pc, document_vars>>

\* run_block_raised without the try/except of _execute_block: the exception
\* reaches the except clause of run().
run_block_raised_propagates(t) ==
    /\ threads[t].pc = "exec"
    /\ LET th == threads[t]
           block_id == th.order[th.i]
       IN  /\ execute_block(blocks[block_id].block_type)
           /\ Emit(t, [th EXCEPT !.pc = "done", !.ending = "error"],
                   <<Event("block_progress", t, block_id, FALSE, "Starting"),
                     Event("block_progress", t, NoId, FALSE, "Pipeline execution error"),
                     Event("pipeline_finished", t, NoId, FALSE, "")>>)
    /\ UNCHANGED <<pipeline_vars, canvas_vars, executor_vars, main_pc, document_vars>>

\* _execute_block when the stage handler raises: the except clause emits the
\* error as progress and returns False, and run() goes on as for any failed
\* block. The handlers of this file return True; a raising handler stands for
\* the stage code they are to call.
run_block_raised(t) ==
    /\ threads[t].pc = "exec"
    /\ LET th == threads[t]
           block_id == th.order[th.i]
       IN  /\ execute_block(blocks[block_id].block_type)
           /\ Emit(t, [th EXCEPT !.pc = "done", !.ending = "failed"],
                   <<Event("block_progress", t, block_id, FALSE, "Starting"),
                     Event("block_progress", t, block_id, FALSE, "Block execution error"),
                     Event("block_completed", t, block_id, FALSE, ""),
                     Event("pipeline_finished", t, NoId, FALSE, "")>>)
    /\ UNCHANGED <<pipeline_vars, canvas_vars, executor_vars, main_pc, document_vars>>

\* ------------------------------------------------- delivery to the GUI thread
\* SetStatus writing a fresh entry of kind and status in place of the block's.
SetStatusRewrites(d, block_id, status) ==
    IF block_id \in DOMAIN d
    THEN [d EXCEPT ![block_id] = [block_type |-> @.block_type, status |-> status]]
    ELSE d

\* ["status"] = status on the entry of block_id, when there is one
SetStatus(d, block_id, status) ==
    IF block_id \in DOMAIN d THEN [d EXCEPT ![block_id].status = status] ELSE d

\* PipelineTab.on_block_execution_started
on_block_execution_started ==
    /\ main_pc = "idle"
    /\ queue # <<>>
    /\ Head(queue).sig = "block_started"
    /\ blocks' = SetStatus(blocks, Head(queue).id, "running")
    /\ canvas_blocks' =
          IF Head(queue).id \in DOMAIN blocks
          THEN SetStatus(canvas_blocks, Head(queue).id, "running")
          ELSE canvas_blocks
    /\ queue' = Tail(queue)
    /\ UNCHANGED <<block_ids, connections, block_counter, canvas_connections,
                   connecting, connection_start, executor_vars, threads, main_pc, document_vars>>

\* PipelineTab.on_block_execution_completed
on_block_execution_completed ==
    /\ main_pc = "idle"
    /\ queue # <<>>
    /\ Head(queue).sig = "block_completed"
    /\ LET status == IF Head(queue).ok THEN "completed" ELSE "failed"
       IN  /\ blocks' = SetStatus(blocks, Head(queue).id, status)
           /\ canvas_blocks' =
                 IF Head(queue).id \in DOMAIN blocks
                 THEN SetStatus(canvas_blocks, Head(queue).id, status)
                 ELSE canvas_blocks
    /\ queue' = Tail(queue)
    /\ UNCHANGED <<block_ids, connections, block_counter, canvas_connections,
                   connecting, connection_start, executor_vars, threads, main_pc, document_vars>>

\* PipelineTab.on_execution_progress: writes to the console only
on_execution_progress ==
    /\ main_pc = "idle"
    /\ queue # <<>>
    /\ Head(queue).sig = "block_progress"
    /\ queue' = Tail(queue)
    /\ UNCHANGED <<pipeline_vars, canvas_vars, executor_vars, threads, main_pc, document_vars>>

\* on_pipeline_finished without "self.is_running = False".
on_pipeline_finished_still_running ==
    /\ main_pc = "idle"
    /\ queue # <<>>
    /\ Head(queue).sig = "pipeline_finished"
    /\ execution_thread' = 0
    /\ queue' = Tail(queue)
    /\ UNCHANGED <<pipeline_vars, canvas_vars, is_running, threads, main_pc,
                   document_vars>>

\* PipelineExecutor._on_pipeline_finished, then on_pipeline_completed
on_pipeline_finished ==
    /\ main_pc = "idle"
    /\ queue # <<>>
    /\ Head(queue).sig = "pipeline_finished"
    /\ is_running' = FALSE
    /\ execution_thread' = 0
    /\ queue' = Tail(queue)
    /\ UNCHANGED <<pipeline_vars, canvas_vars, threads, main_pc, document_vars>>

\* ------------------------------------------------------------ specification
Next ==
    \/ \E block_type \in PaletteTypes :
          NoRunInFlight /\ block_counter < MaxBlocks /\ add_block(block_type)
    \/ \E block_id \in DOMAIN canvas_blocks :
          /\ NoRunInFlight /\ Len(canvas_connections) < MaxConns
          /\ start_connection(block_id)
    \/ \E block_id \in DOMAIN canvas_blocks :
          NoRunInFlight /\ finish_connection(block_id)
    \/ execute_pipeline
    \/ stop_execution
    \/ stop_execution_return
    \/ \E t \in DOMAIN threads : run_build(t)
    \/ \E t \in DOMAIN threads : run_next(t)
    \/ \E t \in DOMAIN threads : run_block_started(t)
    \/ \E t \in DOMAIN threads : run_block_completed(t)
    \/ on_block_execution_started
    \/ on_block_execution_completed
    \/ on_execution_progress
    \/ on_pipeline_finished

Spec == Init /\ [][Next]_vars

\* ------------------------------------------------- resolver specification
\* The resolver applied to every block list of up to ResolverBlocks blocks
\* and every connection list over them of up to ResolverConns connections
\* (duplicates and self-loops included): the state right after
\* execute_pipeline on such a pipeline, and the worker's run_build step.
ResolverIds(n) == [k \in 1..n |-> <<"preprocessing", k>>]

ConnectionLists(ids, maxlen) ==
    UNION {[1..m -> Range(ids) \X Range(ids)] : m \in 0..maxlen}

InitResolver ==
    /\ \E n \in 0..ResolverBlocks :
          /\ block_ids = ResolverIds(n)
          /\ blocks = [b \in Range(ResolverIds(n)) |-> BlockData(b[1], b[2])]
          /\ block_counter = n
          /\ connections \in ConnectionLists(ResolverIds(n), ResolverConns)
    /\ canvas_blocks = [b \in DOMAIN blocks |->
                          [block_type |-> b[1], status |-> "pending"]]
    /\ canvas_connections = connections
    /\ connecting = FALSE
    /\ connection_start = NoId
    /\ is_running = TRUE
    /\ execution_thread = 1
    /\ threads = <<NewThread>>
    /\ queue = <<>>
    /\ main_pc = "idle"
    /\ validation = NotValidated
    /\ pipeline_file = NoFile

NextResolver == run_build(1)

SpecResolver == InitResolver /\ [][NextResolver]_vars

\* ----------------------------------------------------- runs specification
\* Runs on a pipeline as load_pipeline can leave it: up to RunBlocks blocks,
\* and up to RunConns connections whose ends may also name a block the
\* document does not hold. The executor, the workers (their handlers may
\* raise) and the delivery of their signals, with the scheduling the platform
\* gives: a started thread keeps running, the event loop handles a posted
\* signal once the GUI thread is back in it, and wait(5000) returns.
RunIds(n) ==
    {ids \in [1..n -> PaletteTypes \X (1..n)] : \A k \in 1..n : ids[k][2] = k}

InitRuns ==
    /\ \E n \in 1..RunBlocks :
          /\ block_ids \in RunIds(n)
          /\ block_counter = n
          /\ connections \in
                UNION {[1..m -> (Range(block_ids) \cup {MissingId})
                                 \X (Range(block_ids) \cup {MissingId})] :
                       m \in 0..RunConns}
    /\ blocks = [b \in Range(block_ids) |-> BlockData(b[1], b[2])]
    /\ canvas_blocks = [b \in DOMAIN blocks |->
                          [block_type |-> b[1], status |-> "pending"]]
    /\ canvas_connections =
          SelectSeq(connections, LAMBDA c : add_connection_ok(c[1], c[2]))
    /\ connecting = FALSE
    /\ connection_start = NoId
    /\ is_running = FALSE
    /\ execution_thread = 0
    /\ threads = <<>>
    /\ queue = <<>>
    /\ main_pc = "idle"
    /\ validation = NotValidated
    /\ pipeline_file = NoFile

Worker(t) ==
    \/ run_build(t)
    \/ run_next(t)
    \/ run_block_started(t)
    \/ run_block_completed(t)
    \/ run_block_raised(t)

Deliver ==
    \/ on_block_execution_started
    \/ on_block_execution_completed
    \/ on_execution_progress
    \/ on_pipeline_finished

NextRuns ==
    \/ execute_pipeline
    \/ stop_execution
    \/ stop_execution_return
    \/ \E t \in DOMAIN threads : Worker(t)
    \/ Deliver

FairRuns ==
    /\ \A t \in 1..MaxRuns : WF_vars(t \in DOMAIN threads /\ Worker(t))
    /\ WF_vars(Deliver)
    /\ WF_vars(stop_execution_return)

SpecRuns == InitRuns /\ [][NextRuns]_vars /\ FairRuns

\* ------------------------------------------------- document specification
\* Saving and loading, from every pipeline of up to DocBlocks blocks and
\* DocConns connections in the statuses runs leave behind.
DocIds(n) ==
    {ids \in [1..n -> PaletteTypes \X (1..n)] : \A k \in 1..n : ids[k][2] = k}

InitDocument ==
    /\ \E n \in 0..DocBlocks :
          /\ block_ids \in DocIds(n)
          /\ block_counter = n
          /\ connections \in
                UNION {[1..m -> Range(block_ids) \X Range(block_ids)] :
                       m \in 0..DocConns}
    /\ \E status \in [Range(block_ids) ->
                          {"pending", "running", "completed", "failed"}] :
          /\ blocks = [b \in Range(block_ids) |->
                          [BlockData(b[1], b[2]) EXCEPT !.status = status[b]]]
          /\ canvas_blocks = [b \in Range(block_ids) |->
                                 [block_type |-> b[1], status |-> status[b]]]
    /\ canvas_connections = connections
    /\ connecting = FALSE
    /\ connection_start = NoId
    /\ is_running = FALSE
    /\ execution_thread = 0
    /\ threads = <<>>
    /\ queue = <<>>
    /\ main_pc = "idle"
    /\ validation = NotValidated
    /\ pipeline_file = NoFile

NextDocument ==
    \/ \E block_type \in PaletteTypes :
          block_counter < MaxBlocks /\ add_block(block_type)
    \/ new_pipeline
    \/ save_pipeline
    \/ load_pipeline

SpecDocument == InitDocument /\ [][NextDocument]_vars

\* ------------------------------------------------ validator specification
\* validate_pipeline on every pipeline of up to ValBlocks blocks and up to
\* ValConns connections, as the editor builds it or load_pipeline leaves it:
\* duplicates, self-loops, and ends that name a block the pipeline lacks.
ValIds(n) ==
    {ids \in [1..n -> PaletteTypes \X (1..n)] : \A k \in 1..n : ids[k][2] = k}

InitValidate ==
    /\ \E n \in 0..ValBlocks :
          /\ block_ids \in ValIds(n)
          /\ block_counter = n
          /\ connections \in
                UNION {[1..m -> (Range(block_ids) \cup {MissingId})
                                 \X (Range(block_ids) \cup {MissingId})] :
                       m \in 0..ValConns}
    /\ blocks = [b \in Range(block_ids) |-> BlockData(b[1], b[2])]
    /\ canvas_blocks = [b \in DOMAIN blocks |->
                          [block_type |-> b[1], status |-> "pending"]]
    /\ canvas_connections =
          SelectSeq(connections, LAMBDA c : add_connection_ok(c[1], c[2]))
    /\ connecting = FALSE
    /\ connection_start = NoId
    /\ is_running = FALSE
    /\ execution_thread = 0
    /\ threads = <<>>
    /\ queue = <<>>
    /\ main_pc = "idle"
    /\ validation = NotValidated
    /\ pipeline_file = NoFile

NextValidate == validate_pipeline

SpecValidate == InitValidate /\ [][NextValidate]_vars

\* ------------------------------------------------------------ the editor
\* The editing surface alone, from the empty pipeline: blocks added from the
\* palette, the connection gesture, PipelineCanvas.remove_block, New and the
\* two preset pipelines. No run is started.
NextEdit ==
    \/ \E block_type \in PaletteTypes :
          block_counter < EditBlocks /\ add_block(block_type)
    \/ \E block_id \in DOMAIN canvas_blocks :
          /\ Len(canvas_connections) < EditConns /\ Len(connections) < EditConns
          /\ start_connection(block_id)
    \/ \E block_id \in DOMAIN canvas_blocks : finish_connection(block_id)
    \/ \E block_id \in Range(block_ids) \cup {MissingId} : remove_block(block_id)
    \/ new_pipeline
    \/ \E pipeline_type \in {"full", "optimization"} :
          create_selected_pipeline(pipeline_type)

SpecEdit == Init /\ [][NextEdit]_vars

\* ------------------------------------------------- runs of the presets
\* The two preset pipelines, built between runs and run without a stop
\* request; the handlers of _execute_block return as the code's do.
NextPreset ==
    \/ \E pipeline_type \in {"full", "optimization"} :
          NoRunInFlight /\ create_selected_pipeline(pipeline_type)
    \/ execute_pipeline
    \/ \E t \in DOMAIN threads :
          \/ run_build(t)
          \/ run_next(t)
          \/ run_block_started(t)
          \/ run_block_completed(t)
    \/ Deliver

SpecPreset == Init /\ [][NextPreset]_vars

\* ------------------------------------------------------ graph vocabulary
\* The connection relation and its transitive closure, from the connection
\* list alone.
Edges(conns) == {<<c[1], c[2]>> : c \in Range(conns)}

ComposeStep(R) ==
    R \cup {<<p[1][1], p[2][2]>> : p \in {q \in R \X R : q[1][2] = q[2][1]}}

RECURSIVE Closure(_, _)
Closure(R, n) == IF n = 0 THEN R ELSE Closure(ComposeStep(R), n - 1)

HasCycle(ids, conns) ==
    \E b \in Range(ids) : <<b, b>> \in Closure(Edges(conns), Len(ids))

Position(order, b) == CHOOSE k \in DOMAIN order : order[k] = b

\* order lists every id of ids exactly once
ListsEachOnce(order, ids) ==
    /\ Len(order) = Len(ids)
    /\ Range(order) = Range(ids)
    /\ \A j, k \in DOMAIN order : order[j] = order[k] => j = k

\* every connection's source comes before its target in order
RespectsConnections(order, conns) ==
    \A c \in Range(conns) : Position(order, c[1]) < Position(order, c[2])

\* The thread has built its execution order from ids and conns.
OrderBuilt(t) == threads[t].pc # "start" /\ threads[t].ending # "error"

\* ---------------------------------------------------------------- claims
\* C1: for every block set and every acyclic connection list over those
\* blocks, the order _build_execution_order returns contains every block id
\* exactly once and places the source of every connection before its target.
C1_TopologicalOrder ==
    \A t \in DOMAIN threads :
        (OrderBuilt(t) /\ ~HasCycle(threads[t].ids, threads[t].conns)) =>
            /\ ListsEachOnce(threads[t].order, threads[t].ids)
            /\ RespectsConnections(threads[t].order, threads[t].conns)

\* An order was built for three blocks whose connections, a duplicate among
\* them, run against the dict order.
C1_Witness ==
    /\ Len(block_ids) = 3
    /\ connections = <<<<block_ids[3], block_ids[2]>>,
                       <<block_ids[2], block_ids[1]>>,
                       <<block_ids[3], block_ids[2]>> >>
    /\ OrderBuilt(1)
    /\ threads[1].order = <<block_ids[3], block_ids[2], block_ids[1]>>

\* C2: for every connection list that contains a directed cycle among
\* existing blocks (a self-loop included), _build_execution_order reports a
\* CycleDetected failure instead of returning an execution order.
C2_CycleDetected ==
    \A t \in DOMAIN threads :
        (threads[t].pc # "start" /\ HasCycle(threads[t].ids, threads[t].conns)) =>
            /\ threads[t].pc = "done"
            /\ threads[t].ending = "error"
            /\ threads[t].order = <<>>

\* ------------------------------------------------------- event vocabulary
Last(s) == s[Len(s)]

Done(t) == threads[t].pc = "done"

\* The thread's events other than block_progress, as (signal, id, success).
Signals(log) ==
    LET kept == SelectSeq(log, LAMBDA e : e.sig # "block_progress")
    IN  [k \in DOMAIN kept |-> <<kept[k].sig, kept[k].id, kept[k].ok>>]

BlockStarted(b) == <<"block_started", b, FALSE>>
BlockCompleted(b, ok) == <<"block_completed", b, ok>>
RunCompleted(ok) == <<"pipeline_finished", NoId, ok>>
RunStarted == <<"run_started", NoId, FALSE>>

\* BlockStarted(b), BlockCompleted(b, true) for each b of order, in order
RECURSIVE AllSucceed(_)
AllSucceed(order) ==
    IF order = <<>> THEN <<>>
    ELSE <<BlockStarted(Head(order)), BlockCompleted(Head(order), TRUE)>>
         \o AllSucceed(Tail(order))

NoStopRequested == \A t \in DOMAIN threads : ~threads[t].should_stop

\* No signal of thread t waits for delivery.
Delivered(t) == \A k \in DOMAIN queue : queue[k].t # t

\* C3: a run whose connection list contains a cycle is aborted before any
\* block starts: no BlockStarted is emitted and the run ends with
\* pipeline_finished(False).
C3_CyclicRunAborted ==
    \A t \in DOMAIN threads :
        (threads[t].pc # "start" /\ HasCycle(threads[t].ids, threads[t].conns)) =>
            /\ Started(threads[t].log) = <<>>
            /\ Done(t) => Last(Signals(threads[t].log)) = RunCompleted(FALSE)

\* C4: while a worker has not finished, every execute_pipeline call is
\* rejected and creates no second worker thread, whatever calls preceded it.
C4_RejectedWhileActive ==
    [][(\E t \in DOMAIN threads : isRunning(t)) => Len(threads') = Len(threads)]_vars

\* C5: at most one worker is executing a run and at most one block is inside
\* a stage-handler call.
C5_OneWorkerOneHandler ==
    /\ Cardinality({t \in DOMAIN threads : isRunning(t)}) <= 1
    /\ Cardinality({t \in DOMAIN threads : InHandler(t)}) <= 1

\* C6: if a block's handler returns failure, no later block of the order
\* receives BlockStarted in that run, the run emits RunCompleted(false), and
\* every block that was not reached has status Pending after the run ends.
C6_FailFast ==
    \A t \in DOMAIN threads :
        (threads[t].ending = "failed" /\ NoStopRequested /\ queue = <<>>
         /\ t = Len(threads)) =>
            /\ Len(Started(threads[t].log)) = threads[t].i
            /\ Last(Signals(threads[t].log)) = RunCompleted(FALSE)
            /\ \A k \in (threads[t].i + 1)..Len(threads[t].order) :
                  blocks[threads[t].order[k]].status = "pending"

\* The run in which every handler succeeded and no stop was requested.
SucceededUnstopped(t) ==
    /\ Done(t)
    /\ threads[t].ending # "error"
    /\ ~threads[t].should_stop
    /\ \A k \in DOMAIN threads[t].log :
          threads[t].log[k].sig = "block_completed" => threads[t].log[k].ok

RunningAtStop(t) == threads[t].log[
    CHOOSE k \in DOMAIN threads[t].log :
        /\ threads[t].log[k].sig = "block_started"
        /\ Len(Started(SubSeq(threads[t].log, 1, k))) = threads[t].stop_started].id

\* The running block's BlockCompleted precedes the RunCompleted(false) that
\* ends the run.
CompletedBeforeRunCompleted(t) ==
    (threads[t].stop_pc = "exec" /\ Done(t)) =>
        /\ Last(Signals(threads[t].log)) = RunCompleted(FALSE)
        /\ \E k \in DOMAIN threads[t].log :
              /\ threads[t].log[k].sig = "block_completed"
              /\ threads[t].log[k].id = RunningAtStop(t)

\* C8 as stated: once stop() has been called during a run, no block that had
\* not received BlockStarted by then is started afterwards, and the running
\* block's BlockCompleted is emitted before RunCompleted(false).
C8_NoStartAfterStop ==
    \A t \in DOMAIN threads :
        threads[t].should_stop =>
            /\ Len(Started(threads[t].log)) = threads[t].stop_started
            /\ CompletedBeforeRunCompleted(t)

\* C8 as amended: after stop() the only block that can still be started is
\* the one whose should_stop check had already passed when stop() was called
\* (the worker stood between the check and block_started.emit); every other
\* block not started by then is never started, and the running block's
\* BlockCompleted is emitted before RunCompleted(false).
C8_AtMostOneStartAfterStop ==
    \A t \in DOMAIN threads :
        threads[t].should_stop =>
            /\ Len(Started(threads[t].log)) <=
                  threads[t].stop_started + (IF threads[t].stop_pc = "emit" THEN 1 ELSE 0)
            /\ CompletedBeforeRunCompleted(t)

\* stop() arrived while the first of two blocks was in its handler, and the
\* run has ended with the second block never started.
C8_Witness ==
    \E t \in DOMAIN threads :
        /\ threads[t].stop_pc = "exec"
        /\ Done(t)
        /\ Len(threads[t].order) = 2
        /\ Len(Started(threads[t].log)) = 1

\* C9: if every block of the execution order has emitted
\* BlockCompleted(b, true), the run emits RunCompleted(true), also when the
\* stop request arrives while the last block is executing.
C9_AllCompletedIsSuccess ==
    \A t \in DOMAIN threads :
        (/\ Done(t)
         /\ Len(threads[t].order) >= 1
         /\ threads[t].stop_pc \in {"", "exec"}
         /\ \A k \in DOMAIN threads[t].order :
               \E j \in DOMAIN threads[t].log :
                   Signals(<<threads[t].log[j]>>) =
                       <<BlockCompleted(threads[t].order[k], TRUE)>>) =>
            Last(Signals(threads[t].log)) = RunCompleted(TRUE)

\* C10: the completion event of a cancelled run differs from the completion
\* event of a run that ended because a block handler failed.
C10_StoppedDistinguished ==
    \A t, u \in DOMAIN threads :
        (threads[t].ending = "stopped" /\ threads[u].ending = "failed") =>
            Last(Signals(threads[t].log)) # Last(Signals(threads[u].log))

\* ------------------------------------------------------ event ordering
\* The block that log[1..k-1] has started and not completed; NoId when none.
OpenBlock(log, k) ==
    LET open == {j \in 1..(k - 1) :
                    /\ log[j].sig = "block_started"
                    /\ ~\E m \in (j + 1)..(k - 1) :
                          log[m].sig = "block_completed" /\ log[m].id = log[j].id}
    IN  IF open = {} THEN NoId ELSE log[CHOOSE j \in open : TRUE].id

StartedIds(log) == [k \in DOMAIN Started(log) |-> Started(log)[k].id]

\* C11: within a run the BlockStarted events follow the execution order, and
\* each started block's BlockCompleted comes after its BlockStarted and all of
\* its BlockProgress events, before the next block's BlockStarted and before
\* RunCompleted.
C11_EventOrder ==
    \A t \in DOMAIN threads :
        LET log == threads[t].log
        IN  /\ StartedIds(log) = SubSeq(threads[t].order, 1, Len(Started(log)))
            /\ \A k \in DOMAIN log :
                  CASE log[k].sig = "block_started" -> OpenBlock(log, k) = NoId
                    [] log[k].sig = "block_completed" -> OpenBlock(log, k) = log[k].id
                    [] log[k].sig = "block_progress" ->
                          log[k].id # NoId => OpenBlock(log, k) = log[k].id
                    [] OTHER -> OpenBlock(log, k) = NoId /\ k = Len(log)
            /\ Done(t) => /\ OpenBlock(log, Len(log) + 1) = NoId
                          /\ Last(log).sig = "pipeline_finished"

\* A run of two blocks has ended: the first block completed, the second
\* failed in the dispatch, each with its progress messages.
C11_Witness ==
    \E t \in DOMAIN threads :
        /\ Done(t)
        /\ threads[t].ending = "failed"
        /\ Len(Started(threads[t].log)) = 2
        /\ Len(threads[t].log) = 9

\* ------------------------------------------------------ status transitions
Terminal == {"completed", "failed"}

\* Block b has reached a terminal status in a run that has not ended: a worker
\* that has not yet emitted pipeline_finished has emitted b's block_completed,
\* and the GUI thread has handled it.
TerminalInLiveRun(b) ==
    /\ blocks[b].status \in Terminal
    /\ \E t \in DOMAIN threads :
          /\ ~Done(t)
          /\ \E k \in DOMAIN threads[t].log :
                /\ threads[t].log[k].sig = "block_completed"
                /\ threads[t].log[k].id = b
                /\ threads[t].log[k] \notin Range(queue)

\* C12: within one run a block's status only moves pending -> running ->
\* {completed, failed}: a block that has reached a terminal status in a run
\* does not become pending or running again while that run lasts, and no
\* block becomes completed or failed from a status other than running.
C12_MonotonicStatus ==
    [][\A b \in DOMAIN blocks :
          /\ TerminalInLiveRun(b) => blocks'[b].status \in Terminal
          /\ (blocks[b].status \notin Terminal /\ blocks'[b].status \in Terminal)
                => blocks[b].status = "running"]_vars

\* ------------------------------------------------------ return to Idle
\* How run() of thread t ended, when it did not end in success.
EndedUnsuccessful(t) ==
    t \in DOMAIN threads /\ threads[t].ending \in {"failed", "stopped", "error"}

Idle == ~is_running /\ execution_thread = 0

\* In Idle an execute_pipeline call creates a worker (as far as runs are
\* explored).
AcceptsRun ==
    (main_pc = "idle" /\ Len(threads) < MaxRuns) =>
        ENABLED (execute_pipeline /\ Len(threads') = Len(threads) + 1)

\* C13: after a run ends by block failure, cancellation or a worker
\* exception, the engine eventually is Idle again (is_running False,
\* execution_thread None), where the next execute_pipeline call is accepted
\* and starts a new run.
C13_ReturnsToIdle ==
    \A t \in 1..MaxRuns : EndedUnsuccessful(t) ~> (Idle /\ AcceptsRun)

\* The first run ended in a worker exception, its signals were handled, and
\* a second run has been accepted.
C13_Witness ==
    /\ Len(threads) = 2
    /\ threads[1].ending = "error"
    /\ threads[2].pc = "start"
    /\ queue = <<>>

\* ------------------------------------------------------ stop and the wait
\* C14: stop forces no engine state change of its own: when wait(5000)
\* elapses with the worker still running, is_running is after the return of
\* stop_execution what it was before (True); it becomes False only when the
\* worker itself finishes.
C14_StopForcesNothing ==
    [][(/\ main_pc = "wait"
        /\ main_pc' = "idle"
        /\ execution_thread # 0
        /\ isRunning(execution_thread)) => is_running' = is_running]_vars

\* ------------------------------------------------------ dispatch boundary
\* The events of log from index k on, as (signal, id, success, message).
EventsFrom(log, k) ==
    [j \in 1..(Len(log) - k + 1) |->
        <<log[j + k - 1].sig, log[j + k - 1].id, log[j + k - 1].ok, log[j + k - 1].msg>>]

\* C15: the dispatch never throws into the run loop. A block of a kind
\* _execute_block does not dispatch, and a block whose handler raised, gets
\* its message as progress, then BlockCompleted(b, false), and the worker
\* ends the run with RunCompleted(false); the except clause of run() is not
\* entered once a block has started.
C15_DispatchBoundary ==
    \A t \in DOMAIN threads :
        LET log == threads[t].log
        IN  /\ threads[t].ending = "error" => Started(log) = <<>>
            /\ \A k \in DOMAIN log :
                  (log[k].msg \in {"Unknown block type", "Block execution error"}) =>
                      EventsFrom(log, k + 1) =
                          << <<"block_completed", log[k].id, FALSE, "">>,
                             <<"pipeline_finished", NoId, FALSE, "">> >>
            /\ \A k \in DOMAIN log :
                  (/\ log[k].sig = "block_started"
                   /\ blocks[log[k].id].block_type \in {"input", "output"}
                   /\ (threads[t].pc = "exec" => log[k].id # threads[t].order[threads[t].i]))
                  => /\ Done(t) /\ threads[t].ending = "failed"
                     /\ EventsFrom(log, k + 1) =
                          << <<"block_progress", log[k].id, FALSE, "Starting">>,
                             <<"block_progress", log[k].id, FALSE, "Unknown block type">>,
                             <<"block_completed", log[k].id, FALSE, "">>,
                             <<"pipeline_finished", NoId, FALSE, "">> >>
            /\ \A k \in DOMAIN log :
                  (log[k].sig = "block_completed" /\ ~log[k].ok) =>
                      /\ Done(t) /\ threads[t].ending = "failed"
                      /\ log[k - 1].msg \in {"Unknown block type", "Block execution error"}

\* A handler raised: the run has ended with the error message as progress,
\* BlockCompleted(b, false) and RunCompleted(false).
C15_Witness ==
    \E t \in DOMAIN threads :
        /\ Done(t)
        /\ threads[t].ending = "failed"
        /\ \E k \in DOMAIN threads[t].log :
              threads[t].log[k].msg = "Block execution error"

\* ------------------------------------------------------ save and load
\* C16: loading the saved document yields the block ids, kinds, parameters
\* and connections the pipeline had when it was saved, and every loaded block
\* has status pending whatever its status was when saved.
C16_RoundTrip ==
    [][load_pipeline =>
          LET saved == pipeline_file.saved_from
          IN  /\ block_ids' = saved.block_ids
              /\ connections' = saved.connections
              /\ \A b \in Range(saved.block_ids) :
                    /\ blocks'[b].block_type = saved.blocks[b].block_type
                    /\ blocks'[b].parameters = saved.blocks[b].parameters
                    /\ blocks'[b].status = "pending"]_vars

\* ------------------------------------------------------ validation issues
IssuesWith(text) ==
    SelectSeq(validation.issues, LAMBDA issue : issue[1] = text)

\* C17: validate on a pipeline with no blocks reports the 'no blocks' issue
\* and the 'needs an input block' issue; on a pipeline of a single input
\* block and no connections it reports no issue.
C17_EmptyAndSingleInput ==
    validation.done =>
        /\ block_ids = <<>> =>
              /\ Len(IssuesWith("Pipeline has no blocks")) = 1
              /\ Len(IssuesWith("Pipeline needs an input block")) = 1
        /\ (/\ Len(block_ids) = 1
            /\ blocks[block_ids[1]].block_type = "input"
            /\ connections = <<>>) => validation.issues = <<>>

\* The empty pipeline has been validated.
C17_Witness ==
    /\ validation.done
    /\ block_ids = <<>>
    /\ connections = <<>>
    /\ Len(validation.issues) = 2

\* The 'has no inputs' issues that name block b
NoInputsIssues(b) ==
    SelectSeq(validation.issues,
              LAMBDA issue : issue = Issue("has no inputs", blocks[b].name))

\* C18 as stated: validate reports a 'has no inputs' issue for a block if and
\* only if the block's kind is not input and no connection targets it from
\* an existing block; one issue per such block, naming it.
C18_NoInputsFromExisting ==
    validation.done =>
        \A b \in Range(block_ids) :
            Len(NoInputsIssues(b)) =
                IF /\ blocks[b].block_type # "input"
                   /\ ~\E c \in Range(connections) :
                         c[2] = b /\ c[1] \in Range(block_ids)
                THEN 1 ELSE 0

\* Every connection joins two blocks of the pipeline.
ConnectionsJoinBlocks ==
    \A c \in Range(connections) :
        c[1] \in Range(block_ids) /\ c[2] \in Range(block_ids)

EngineStep == threads' # threads \/ queue' # queue \/ is_running' # is_running

\* C20: the engine changes only the status field of blocks: through every
\* step of a run the block ids, each block's kind, name, parameters and
\* position, and the connection list stay as they were when execute_pipeline
\* was called.
C20_OnlyStatusChanges ==
    [][EngineStep =>
          /\ block_ids' = block_ids
          /\ connections' = connections
          /\ DOMAIN blocks' = DOMAIN blocks
          /\ \A b \in DOMAIN blocks :
                [blocks'[b] EXCEPT !.status = blocks[b].status] = blocks[b]]_vars

\* A run over two connected blocks has ended and its signals were handled:
\* the first block of the order is completed, the second failed.
C20_Witness ==
    /\ Len(threads) = 1
    /\ Done(1)
    /\ queue = <<>>
    /\ Len(threads[1].order) = 2
    /\ connections # <<>>
    /\ blocks[threads[1].order[1]].status = "completed"
    /\ blocks[threads[1].order[2]].status = "failed"

\* ------------------------------------------------------------ the editor
\* The connection the gesture asks for when the click on the input port of
\* target_block_id ends it
AbsentEnd(target_block_id) ==
    \/ connection_start \notin DOMAIN canvas_blocks
    \/ connection_start \notin DOMAIN blocks
    \/ target_block_id \notin DOMAIN blocks

DuplicateConnection(target_block_id) ==
    <<connection_start, target_block_id>> \in Range(connections)

\* C21: a connection whose source or target block is absent, or that equals
\* an existing connection, is rejected: the gesture that asks for it leaves
\* the blocks and the connections unchanged, in the configuration and on the
\* canvas.
C21_RejectedUnchanged ==
    [][\A target_block_id \in DOMAIN canvas_blocks :
         (/\ finish_connection(target_block_id)
          /\ connection_start # NoId
          /\ AbsentEnd(target_block_id) \/ DuplicateConnection(target_block_id))
         => UNCHANGED <<block_ids, blocks, connections, canvas_blocks,
                        canvas_connections>>]_vars

\* Connections of the list conns that have block_id at neither end
NotTouching(conns, block_id) ==
    SelectSeq(conns, LAMBDA c : c[1] # block_id /\ c[2] # block_id)

\* C22: after remove_block(id) the block id is not in the pipeline and no
\* connection of the pipeline has id as its source or its target, while all
\* other blocks and connections are as before; the pipeline is the
\* configuration that is validated, saved and run, together with its
\* picture on the canvas.
C22_RemoveBlock ==
    [][\A block_id \in DOMAIN canvas_blocks :
         remove_block(block_id)
         => /\ block_id \notin DOMAIN canvas_blocks'
            /\ canvas_blocks' =
                  [b \in DOMAIN canvas_blocks \ {block_id} |-> canvas_blocks[b]]
            /\ canvas_connections' = NotTouching(canvas_connections, block_id)
            /\ block_id \notin DOMAIN blocks'
            /\ blocks' = [b \in DOMAIN blocks \ {block_id} |-> blocks[b]]
            /\ connections' = NotTouching(connections, block_id)]_vars

\* C23: after any sequence of editing operations the pipeline has no
\* connection from a block to itself and no connection that names a block
\* which is not in the pipeline.
C23_NoSelfLoopNoDangling ==
    \A k \in DOMAIN connections :
        /\ connections[k][1] # connections[k][2]
        /\ connections[k][1] \in DOMAIN blocks
        /\ connections[k][2] \in DOMAIN blocks

\* C24: every add_block call creates its block under an id that no block of
\* the pipeline has, so it never replaces a block; after any sequence of
\* add_block, new_pipeline and the preset pipelines.
C24_FreshBlockId ==
    [][\A block_type \in PaletteTypes :
         add_block(block_type)
         => <<block_type, block_counter + 1>> \notin DOMAIN blocks]_vars

\* ------------------------------------------------------------ the resolver
\* C25: _build_execution_order returns on every input, cyclic or not, and a
\* block id passes the visited check of visit at most once: each pass appends
\* the id to the order once, so the order built names no id twice and is no
\* longer than the number of blocks.
C25_VisitedOnce ==
    \A t \in DOMAIN threads :
        /\ threads[t].pc = "start" => ENABLED run_build(t)
        /\ OrderBuilt(t) =>
              /\ Len(threads[t].order) <= Len(threads[t].ids)
              /\ \A j, k \in DOMAIN threads[t].order :
                    threads[t].order[j] = threads[t].order[k] => j = k

\* A pipeline of three blocks with a cycle whose order has been built: all
\* three blocks have passed the visited check.
C25_Witness ==
    /\ threads # <<>>
    /\ OrderBuilt(1)
    /\ Len(threads[1].ids) = 3
    /\ HasCycle(threads[1].ids, threads[1].conns)
    /\ Len(threads[1].order) = 3

\* The predecessor map _build_execution_order builds for thread t's input
Dependencies(t) ==
    BuildDependencies([b \in Range(threads[t].ids) |-> <<>>],
                      threads[t].conns, 1).deps

\* C26: the predecessor map is deduplicated: in the list of every target
\* block each source id appears at most once, also when the connection list
\* holds the same (source, target) connection several times.
C26_Deduplicated ==
    \A t \in DOMAIN threads :
        OrderBuilt(t) =>
            \A b \in DOMAIN Dependencies(t) :
                \A j, k \in DOMAIN Dependencies(t)[b] :
                    Dependencies(t)[b][j] = Dependencies(t)[b][k] => j = k

\* ------------------------------------------------------ the full preset
\* The block ids of the pipeline create_full_pipeline builds, in its order
FullPipelineIds ==
    << <<"input", 1>>, <<"preprocessing", 1>>, <<"optimization", 1>>,
       <<"simulation", 1>>, <<"analysis", 1>>, <<"output", 1>> >>

\* C27: a run of the pipeline built by create_full_pipeline, with no stop
\* requested, starts the six blocks input_1, preprocessing_1,
\* optimization_1, simulation_1, analysis_1, output_1 in that order and ends
\* with pipeline_finished(True).
C27_FullPipelineRuns ==
    \A t \in DOMAIN threads :
        (Done(t) /\ threads[t].ids = FullPipelineIds /\ ~threads[t].should_stop)
        => /\ StartedIds(threads[t].log) = FullPipelineIds
           /\ Last(Signals(threads[t].log)) = RunCompleted(TRUE)

\* ------------------------------------------------------- the end of a run
\* How many pipeline_finished signals thread t has emitted
FinishedCount(t) ==
    Len(SelectSeq(threads[t].log, LAMBDA e : e.sig = "pipeline_finished"))

\* C28: every started worker terminates, given that each handler call
\* returns, and emits pipeline_finished exactly once, as the last thing it
\* emits: a finished worker has emitted it once and last, a running worker
\* has not emitted it.
C28_FinishedOnceLast ==
    /\ \A t \in 1..MaxRuns :
          (t \in DOMAIN threads) ~> (t \in DOMAIN threads /\ Done(t))
    /\ [](\A t \in DOMAIN threads :
            IF Done(t)
            THEN /\ FinishedCount(t) = 1
                 /\ Last(threads[t].log).sig = "pipeline_finished"
            ELSE FinishedCount(t) = 0)

\* Two finished workers: the first was stopped, the second ran to success.
C28_Witness ==
    /\ Len(threads) = 2
    /\ Done(1) /\ threads[1].ending = "stopped"
    /\ Done(2) /\ threads[2].ending = "success"

\* ----------------------------------------------------- overlapping runs
\* C29: the completion signal of one run only ends that run: when the
\* pipeline_finished of an earlier worker is delivered while a later
\* worker is the running execution_thread, is_running and execution_thread
\* stay as they are, so stop_execution still reaches the later worker and
\* execute_pipeline is still rejected.
C29_CompletionEndsOwnRun ==
    [][(/\ queue # <<>>
        /\ Head(queue).sig = "pipeline_finished"
        /\ queue' = Tail(queue)
        /\ is_running
        /\ execution_thread # 0
        /\ execution_thread # Head(queue).t
        /\ isRunning(execution_thread))
       => (is_running' /\ execution_thread' = execution_thread)]_vars

\* C30: whenever the engine is Idle (is_running is False) and every emitted
\* signal has been delivered, no block of the pipeline has status running.
C30_IdleNoRunningBlock ==
    (~is_running /\ main_pc = "idle" /\ queue = <<>>)
    => \A b \in DOMAIN blocks : blocks[b].status # "running"

====
